---- MODULE Spec2Model ----
(***************************************************************************)
(* Model of src/main.py: the /tgusers request handler (get_bot_data), the  *)
(* session bootstrap (create_client) and the difference-sync aggregation   *)
(* (get_chats_and_users) with its helpers normalize_chat_type and          *)
(* merge_chat_data.                                                        *)
(*                                                                         *)
(* Every request is a coroutine.  Its position (pc) moves at the await     *)
(* points of the handler (client.start, client.get_me, client.invoke,      *)
(* asyncio.sleep, client.stop) and, inside one page, at the iterations of  *)
(* the three for-loops over the page's users, chats and new_messages: the  *)
(* objects of a page are drawn one at a time, when the loop reaches them.  *)
(* The platform (the wrapped client library) is the environment: it picks  *)
(* the outcome of every call.                                              *)
(*                                                                         *)
(* Besides the program's state the module keeps a record of what the       *)
(* platform served to the current attempt of each request (obsUsers,       *)
(* obsChats, obsForbidden, lost): the program never reads it; the claims   *)
(* compare the program's results with it.                                  *)
(*                                                                         *)
(* Three specifications: Spec (one request), SpecConc (two concurrent      *)
(* requests) and SpecNorm (normalize_chat_type called on its own, on every *)
(* raw type tag of RawTypes, and then on what it returned).                *)
(***************************************************************************)
EXTENDS Integers, Sequences, FiniteSets, TLC

\* ------------------------------------------------------------------ bounds

\* Objects (users, chats, updates) the platform delivers in a one-request run.
MaxObs == 2
\* getDifference calls the platform answers in a one-request run.
MaxCalls == 2
\* Flood-wait signals the platform raises in a run.
MaxFloods == 1
\* Longest flood-wait duration, in clock ticks.
MaxWait == 2
\* The same budgets for a run with two concurrent requests (shared by both).
ConcObs == 1
ConcCalls == 1

Requests == {1, 2}

\* ------------------------------------------------------- Python values

\* Optional values: None is the empty tuple, a present value v is <<v>>.
None == <<>>
Some(v) == <<v>>
Val(o) == o[1]

\* Python truthiness of an optional string: None and "" are falsy.
Truthy(o) == o /= None /\ o /= Some("")

\* A string with its letter case: the lower-cased text and the positions of
\* its upper-case letters.
Str(text, caps) == [s |-> text, up |-> caps]
Lower(x) == [s |-> x.s, up |-> {}]

\* hasattr(obj, name): a platform object lists the optional attributes it has.
HasAttr(obj, name) == name \in obj.attrs

\* A dict keyed by the id of its values, in insertion order.
DictHas(d, k) == \E i \in 1..Len(d) : d[i].id = k

DictGet(d, k) ==
  IF DictHas(d, k) THEN Some(d[CHOOSE i \in 1..Len(d) : d[i].id = k]) ELSE None

\* d.setdefault(k, v): the value of an existing key is kept.
DictSet_KeepsFirst(d, k, v) ==
  IF DictHas(d, k) THEN d ELSE Append(d, v)

\* d[k] = v: an existing key keeps its place, a new key goes last.
DictSet(d, k, v) ==
  IF DictHas(d, k)
  THEN [i \in 1..Len(d) |-> IF d[i].id = k THEN v ELSE d[i]]
  ELSE Append(d, v)

Keys(d) == {d[i].id : i \in 1..Len(d)}

\* ------------------------------------------------------ pure helpers

\* The map giving "group" for a chat while a forbidden chat still gives "chat".
type_map_GroupForChat ==
  [t \in {"chat", "channel", "chatforbidden", "channelforbidden"} |->
     CASE t = "chat" -> "group"
       [] t = "channel" -> "channel"
       [] t = "chatforbidden" -> "chat"
       [] t = "channelforbidden" -> "channel"]

type_map ==
  [t \in {"chat", "channel", "chatforbidden", "channelforbidden"} |->
     CASE t = "chat" -> "chat"
       [] t = "channel" -> "channel"
       [] t = "chatforbidden" -> "chat"
       [] t = "channelforbidden" -> "channel"]

normalize_chat_type(raw_type) ==
  LET low == Lower(raw_type)
  IN  IF low.s \in DOMAIN type_map THEN Str(type_map[low.s], {}) ELSE low

Chat(id, members_count, title, type, username) ==
  [id |-> id, members_count |-> members_count, title |-> title,
   type |-> type, username |-> username]

User(id, first_name, last_name, username, is_premium) ==
  [id |-> id, first_name |-> first_name, last_name |-> last_name,
   username |-> username, is_premium |-> is_premium]

\* existing is an optional Chat (chats.get(id)).
merge_chat_data(existing, new) ==
  IF existing = None
  THEN new
  ELSE LET old == Val(existing)
       IN  Chat(old.id,
                IF new.members_count /= None THEN new.members_count
                                             ELSE old.members_count,
                IF new.title /= "Unknown" THEN new.title ELSE old.title,
                new.type,
                IF Truthy(new.username) THEN new.username ELSE old.username)

\* chat.__class__.__name__.lower() in ["chatforbidden", "channelforbidden"]
IsForbidden(chat) == Lower(chat.cls).s \in {"chatforbidden", "channelforbidden"}

\* chat.title or chat.first_name or "Unknown"
TitleOf(chat) ==
  IF Truthy(chat.title) THEN Val(chat.title)
  ELSE IF Truthy(chat.first_name) THEN Val(chat.first_name)
  ELSE "Unknown"

\* The Chat built from an entry of diff.chats.
ChatFromList(chat) ==
  Chat(chat.id,
       IF HasAttr(chat, "members_count") THEN chat.members_count ELSE None,
       TitleOf(chat),
       normalize_chat_type(chat.cls),
       IF HasAttr(chat, "username") THEN chat.username ELSE None)

\* The Chat built from update.message.chat.
ChatFromMessage(chat) ==
  Chat(chat.id,
       IF HasAttr(chat, "members_count") THEN chat.members_count ELSE None,
       TitleOf(chat),
       normalize_chat_type(IF chat.type /= None THEN Val(chat.type) ELSE chat.cls),
       chat.username)

\* The User built from an entry of diff.users.
UserFromList(user) ==
  User(user.id, user.first_name, user.last_name, user.username,
       IF HasAttr(user, "premium") THEN user.premium ELSE FALSE)

\* ------------------------------------------------ exceptions and responses

\* An exception: its class, str(e) as a list of text pieces, and the wait of a
\* FloodWait (0 otherwise).
Exc(cls, msg, value) == [cls |-> cls, msg |-> msg, value |-> value]

\* The classes derived from pyrogram.errors.RPCError (src/main.py:6).
RPCErrorClasses == {"RPCError", "FloodWait", "Unauthorized"}

\* create_client: except Exception -> raise Exception("Failed to initialize client: ...")
ClientInitError(e) == Exc("Exception", <<"Failed to initialize client: ">> \o e.msg, 0)

\* get_chats_and_users: except Exception -> raise Exception("Error fetching ...")
AggregationError(e) ==
  Exc("Exception", <<"Error fetching chats and users: ">> \o e.msg, 0)

NoExc == Exc("none", <<>>, 0)

NoResponse == [status |-> 0, body |-> [error |-> <<>>]]

MissingToken == [status |-> 400, body |-> [error |-> <<"Bot token is required">>]]

\* The except clauses of get_bot_data.
ErrorResponse(e) ==
  IF e.cls \in RPCErrorClasses
  THEN [status |-> 400, body |-> [error |-> <<"Telegram API error: ">> \o e.msg]]
  ELSE [status |-> 500, body |-> [error |-> <<"Internal server error: ">> \o e.msg]]

\* BotDataResponse(...).to_dict(), HTTP 200.
BotDataResponse(bot_info, chat_list, user_list) ==
  [status |-> 200,
   body |-> [bot_info |-> bot_info, chats |-> chat_list, users |-> user_list]]

\* ------------------------------------------------- what the platform sends

Tokens == {None, Some(""), Some("123:abc")}

Bots == {[first_name |-> "Bot", id |-> 7, username |-> "the_bot"]}

ChatIds == {1, 2}
UserIds == {1, 2}

RawUsers ==
  UNION {{[id |-> i, first_name |-> Some("Ann"), last_name |-> None,
           username |-> None, attrs |-> {}, premium |-> FALSE],
          [id |-> i, first_name |-> Some("Bob"), last_name |-> Some("Lee"),
           username |-> Some("bob"), attrs |-> {"premium"}, premium |-> TRUE]}
         : i \in UserIds}

RawChat(cls, i, type, title, first_name, attrs, members_count, username) ==
  [cls |-> cls, id |-> i, type |-> type, title |-> title,
   first_name |-> first_name, attrs |-> attrs,
   members_count |-> members_count, username |-> username]

\* Entries of diff.chats.
ListChats ==
  UNION {{RawChat(Str("chat", {1}), i, None, None, None, {}, None, None),
          RawChat(Str("channel", {1}), i, None, Some("News"), None,
                  {"members_count", "username"}, Some(5), Some("news")),
          RawChat(Str("chat", {1}), i, None, Some("Team"), None,
                  {"members_count"}, Some(7), None),
          RawChat(Str("chatforbidden", {1, 5}), i, None, Some("Gone"), None,
                  {}, None, None)}
         : i \in ChatIds}

\* Chats embedded in messages (update.message.chat).
MessageChats ==
  UNION {{RawChat(Str("chat", {1}), i, Some(Str("private", 1..7)), None,
                  Some("Ann"), {}, None, Some("ann")),
          RawChat(Str("channel", {1}), i, None, Some("News"), None,
                  {"members_count"}, Some(5), None),
          RawChat(Str("channelforbidden", {1, 8}), i, None, Some("Gone"), None,
                  {}, None, None)}
         : i \in ChatIds}

\* Entries of diff.new_messages: the class of the entry and its message.chat.
Updates ==
  {[cls |-> "Message", chat |-> None], [cls |-> "UpdateNewMessage", chat |-> None]}
  \cup {[cls |-> IF c.cls.s = "chat" THEN "UpdateNewMessage"
                                      ELSE "UpdateNewChannelMessage",
         chat |-> Some(c)] : c \in MessageChats}

\* isinstance(update, (types.UpdateNewMessage, types.UpdateNewChannelMessage))
IsNewMessage(update) == update.cls \in {"UpdateNewMessage", "UpdateNewChannelMessage"}

State(pts, date, qts) == [pts |-> pts, date |-> date, qts |-> qts]

\* intermediate_state values of a slice.
PlatformStates == {State(1, 1, 1), State(50, 60, 70)}

Shapes == {"Difference", "DifferenceSlice", "DifferenceEmpty", "DifferenceTooLong"}

\* Only a full difference and a slice carry users, chats and new_messages;
\* getattr(diff, ..., []) gives the other shapes empty lists.
HasLists(d) == d.shape \in {"Difference", "DifferenceSlice"}

Diffs ==
  {[shape |-> "DifferenceSlice", state |-> st] : st \in PlatformStates}
  \cup {[shape |-> sh, state |-> State(0, 0, 0)] : sh \in Shapes \ {"DifferenceSlice"}}

FloodWaits == {Exc("FloodWait", <<"FLOOD_WAIT_X">>, v) : v \in 1..MaxWait}

StartErrors ==
  {Exc("Unauthorized", <<"ACCESS_TOKEN_INVALID">>, 0),
   Exc("ConnectionError", <<"connection failed">>, 0)}

CallErrors ==
  {Exc("RPCError", <<"INTERNAL">>, 0), Exc("ConnectionError", <<"connection lost">>, 0)}

\* ------------------------------------------------------------------ state

VARIABLES
  pc,                  \* where each request's coroutine stands
  token,               \* request.args.get('token')
  session,             \* the request's client: "none", "started", "stopped"
  bot_info,            \* BotInfo built from get_me
  chats, users, inaccessible_chats, batch_count,
  custom_pts, custom_date, custom_qts,
  batch_users, batch_chats,   \* TRUE when the page's list is not empty
  diff,                \* the page being processed
  exc,                 \* the exception raised to the request and not yet handled (e, fw)
  slept,               \* clock ticks spent so far in asyncio.sleep
  response,            \* what the handler returned
  calls,               \* the platform calls the request has made: how many, and the last
  obsUsers, obsChats, obsForbidden,   \* what the current attempt was served
  lost,                \* ids served to attempts that a flood wait interrupted
  quota,               \* what the platform still delivers in this run
  raw_type,            \* the argument of a call of normalize_chat_type on its own
  normalized,          \* what that call returned
  renormalized         \* what normalize_chat_type returned for that result

reqVars == <<pc, token, session, bot_info, exc, slept, response, calls>>
aggVars == <<chats, users, inaccessible_chats, batch_count,
             custom_pts, custom_date, custom_qts, batch_users, batch_chats, diff>>
obsVars == <<obsUsers, obsChats, obsForbidden, lost>>
normVars == <<raw_type, normalized, renormalized>>
vars == <<reqVars, aggVars, obsVars, quota, normVars>>

\* Nothing served yet: per id, the number of observations, what the latest
\* ones carried and, for a user, the page (counted from 1) of the latest one
\* and whether it differed from the observation before it.
NoUsersSeen ==
  [i \in UserIds |-> [n |-> 0, last |-> None, page |-> 0, changed |-> FALSE]]
NoChatsSeen ==
  [i \in ChatIds |-> [n |-> 0, members_count |-> None, title |-> "Unknown",
                      username |-> None]]

Call(op, cursor) == [op |-> op, cursor |-> cursor]
NoCursor == State(0, 0, 0)
NoCalls == [n |-> 0, last |-> Call("none", NoCursor)]

\* One more platform call goes out.
Made(made, call) == [n |-> made.n + 1, last |-> call]

NoDiff == [shape |-> "none", state |-> NoCursor]

\* The accumulators and the cursor kept at module level: one copy for all
\* requests.
Frame_ModuleLevel(r) == 1

\* The locals of get_chats_and_users (lines 108-114) live in the frame of the
\* call: every request's call has a frame of its own.
Frame(r) == r

Cursor(r) ==
  State(custom_pts[Frame(r)], custom_date[Frame(r)], custom_qts[Frame(r)])

InitCommon ==
  /\ token = [r \in Requests |-> None]
  /\ session = [r \in Requests |-> "none"]
  /\ bot_info = [r \in Requests |-> None]
  /\ chats = [r \in Requests |-> <<>>]
  /\ users = [r \in Requests |-> <<>>]
  /\ inaccessible_chats = [r \in Requests |-> {}]
  /\ batch_count = [r \in Requests |-> 0]
  /\ custom_pts = [r \in Requests |-> 0]
  /\ custom_date = [r \in Requests |-> 0]
  /\ custom_qts = [r \in Requests |-> 0]
  /\ batch_users = [r \in Requests |-> FALSE]
  /\ batch_chats = [r \in Requests |-> FALSE]
  /\ diff = [r \in Requests |-> NoDiff]
  /\ exc = [r \in Requests |-> NoExc]
  /\ slept = [r \in Requests |-> 0]
  /\ response = [r \in Requests |-> NoResponse]
  /\ calls = [r \in Requests |-> NoCalls]
  /\ obsUsers = [r \in Requests |-> NoUsersSeen]
  /\ obsChats = [r \in Requests |-> NoChatsSeen]
  /\ obsForbidden = [r \in Requests |-> {}]
  /\ lost = [r \in Requests |-> [users |-> {}, chats |-> {}]]

\* normalize_chat_type is not called on its own.
NoNormalization ==
  /\ raw_type = Str("", {})
  /\ normalized = None
  /\ renormalized = None

\* One request arrives; no other request is in flight.
Init ==
  /\ InitCommon
  /\ NoNormalization
  /\ pc = [r \in Requests |-> IF r = 1 THEN "new" ELSE "absent"]
  /\ quota = [objs |-> MaxObs, calls |-> MaxCalls, floods |-> MaxFloods]

\* Two requests arrive and run concurrently.
InitConc ==
  /\ InitCommon
  /\ NoNormalization
  /\ pc = [r \in Requests |-> "new"]
  /\ quota = [objs |-> ConcObs, calls |-> ConcCalls, floods |-> MaxFloods]

\* ------------------------------------------------------- get_bot_data

\* The event loop runs one coroutine at a time and switches only at an await:
\* while a request is between the awaits of one page (in the loops of lines
\* 129-215), no other request takes a step.
Scheduled(r) ==
  \A q \in Requests \ {r} : pc[q] \notin {"users", "chats", "messages"}

\* The handler returns resp.
Return(r, resp) ==
  /\ response' = [response EXCEPT ![r] = resp]
  /\ pc' = [pc EXCEPT ![r] = "done"]

\* The restart handing the interrupted run's accumulators on to the new run.
EnterAggregation_KeepsAccumulators(r) ==
  /\ custom_pts' = [custom_pts EXCEPT ![Frame(r)] = 1]
  /\ custom_date' = [custom_date EXCEPT ![Frame(r)] = 1]
  /\ custom_qts' = [custom_qts EXCEPT ![Frame(r)] = 1]
  /\ calls' = [calls EXCEPT ![r] = Made(@, Call("GetDifference", Cursor(r)'))]
  /\ pc' = [pc EXCEPT ![r] = "invoke"]
  /\ UNCHANGED <<chats, users, inaccessible_chats, batch_count, batch_users,
                 batch_chats, diff>>

\* The entry of get_chats_and_users up to its first await: fresh accumulators,
\* the cursor (1, 1, 1), and a GetDifference with that cursor on the wire.
EnterAggregation(r) ==
  /\ chats' = [chats EXCEPT ![Frame(r)] = <<>>]
  /\ users' = [users EXCEPT ![Frame(r)] = <<>>]
  /\ inaccessible_chats' = [inaccessible_chats EXCEPT ![Frame(r)] = {}]
  /\ batch_count' = [batch_count EXCEPT ![Frame(r)] = 0]
  /\ custom_pts' = [custom_pts EXCEPT ![Frame(r)] = 1]
  /\ custom_date' = [custom_date EXCEPT ![Frame(r)] = 1]
  /\ custom_qts' = [custom_qts EXCEPT ![Frame(r)] = 1]
  /\ calls' = [calls EXCEPT ![r] = Made(@, Call("GetDifference", Cursor(r)'))]
  /\ pc' = [pc EXCEPT ![r] = "invoke"]
  /\ UNCHANGED <<batch_users, batch_chats, diff>>

\* get_chats_and_users is left by an exception: its frame, and the record of
\* what the attempt was served, are gone.
DropAggregation(r) ==
  /\ chats' = [chats EXCEPT ![Frame(r)] = <<>>]
  /\ users' = [users EXCEPT ![Frame(r)] = <<>>]
  /\ inaccessible_chats' = [inaccessible_chats EXCEPT ![Frame(r)] = {}]
  /\ batch_count' = [batch_count EXCEPT ![Frame(r)] = 0]
  /\ custom_pts' = [custom_pts EXCEPT ![Frame(r)] = 0]
  /\ custom_date' = [custom_date EXCEPT ![Frame(r)] = 0]
  /\ custom_qts' = [custom_qts EXCEPT ![Frame(r)] = 0]
  /\ obsUsers' = [obsUsers EXCEPT ![r] = NoUsersSeen]
  /\ obsChats' = [obsChats EXCEPT ![r] = NoChatsSeen]
  /\ obsForbidden' = [obsForbidden EXCEPT ![r] = {}]
  /\ UNCHANGED <<batch_users, batch_chats, diff, lost>>

\* The missing-token test mistaken for "is None": an empty token passes.
TokenMissing_NoneOnly(tok) == tok = None

\* Line 332: if not bot_token.
TokenMissing(tok) == ~Truthy(tok)

\* Lines 331-336: the token check, then create_client up to await client.start().
Receive(r) ==
  /\ pc[r] = "new"
  /\ Scheduled(r)
  /\ \E tok \in Tokens :
       /\ token' = [token EXCEPT ![r] = tok]
       /\ IF TokenMissing(tok)
          THEN /\ Return(r, MissingToken)
               /\ UNCHANGED calls
          ELSE /\ calls' = [calls EXCEPT ![r] = Made(@, Call("start", NoCursor))]
               /\ pc' = [pc EXCEPT ![r] = "start"]
               /\ UNCHANGED response
  /\ UNCHANGED <<session, bot_info, exc, slept, aggVars, obsVars, quota>>
  /\ UNCHANGED normVars

\* client.start() succeeds: create_client returns and get_me is called.
StartOk(r) ==
  /\ pc[r] = "start"
  /\ Scheduled(r)
  /\ session' = [session EXCEPT ![r] = "started"]
  /\ calls' = [calls EXCEPT ![r] = Made(@, Call("get_me", NoCursor))]
  /\ pc' = [pc EXCEPT ![r] = "get_me"]
  /\ UNCHANGED <<token, bot_info, exc, slept, response, aggVars, obsVars, quota>>
  /\ UNCHANGED normVars

\* client.start() raises: create_client re-raises a plain Exception, which the
\* handler's except clauses turn into a response.
StartFails(r) ==
  /\ pc[r] = "start"
  /\ Scheduled(r)
  /\ \E e \in StartErrors \cup {f \in FloodWaits : quota.floods > 0} :
       /\ exc' = [exc EXCEPT ![r] = e]
       /\ Return(r, ErrorResponse(ClientInitError(e)))
       /\ quota' = [quota EXCEPT !.floods = IF e.cls = "FloodWait" THEN @ - 1 ELSE @]
  /\ UNCHANGED <<token, session, bot_info, slept, calls, aggVars, obsVars>>
  /\ UNCHANGED normVars

\* client.get_me() returns: bot_info is built and get_chats_and_users entered.
GetMeOk(r) ==
  /\ pc[r] = "get_me"
  /\ Scheduled(r)
  /\ \E me \in Bots : bot_info' = [bot_info EXCEPT ![r] = Some(me)]
  /\ EnterAggregation(r)
  /\ UNCHANGED <<token, session, exc, slept, response, obsVars, quota>>
  /\ UNCHANGED normVars

\* client.get_me() raises inside the handler's try.
GetMeFails(r) ==
  /\ pc[r] = "get_me"
  /\ Scheduled(r)
  /\ \E e \in CallErrors \cup {f \in FloodWaits : quota.floods > 0} :
       /\ exc' = [exc EXCEPT ![r] = e]
       /\ Return(r, ErrorResponse(e))
       /\ quota' = [quota EXCEPT !.floods = IF e.cls = "FloodWait" THEN @ - 1 ELSE @]
  /\ UNCHANGED <<token, session, bot_info, slept, calls, aggVars, obsVars>>
  /\ UNCHANGED normVars

\* ------------------------------------------------ get_chats_and_users

\* The record of what the attempt was served: a user observation.
SeeUser(r, user) ==
  obsUsers' = [obsUsers EXCEPT ![r][user.id] =
                 [n |-> @.n + 1, last |-> Some(UserFromList(user)),
                  page |-> batch_count[Frame(r)] + 1,
                  changed |-> @.n > 0 /\ @.last /= Some(UserFromList(user))]]

\* The record of what the attempt was served: a chat observation.  For a
\* non-forbidden chat it keeps, per field, the latest non-empty value seen.
SeeChat(r, chat, chat_data) ==
  IF IsForbidden(chat)
  THEN /\ obsForbidden' = [obsForbidden EXCEPT ![r] = @ \cup {chat.id}]
       /\ UNCHANGED obsChats
  ELSE /\ obsChats' = [obsChats EXCEPT ![r][chat.id] =
            [n |-> @.n + 1,
             members_count |-> IF chat_data.members_count /= None
                               THEN chat_data.members_count ELSE @.members_count,
             title |-> IF chat_data.title /= "Unknown" THEN chat_data.title
                                                        ELSE @.title,
             username |-> IF chat_data.username /= None THEN chat_data.username
                                                        ELSE @.username]]
       /\ UNCHANGED obsForbidden

\* A page arriving with the users dict started afresh, as if users were
\* created inside the "while True" loop.
InvokeOk_ForgetsUsers(r) ==
  /\ pc[r] = "invoke"
  /\ Scheduled(r)
  /\ quota.calls > 0
  /\ \E d \in Diffs : diff' = [diff EXCEPT ![Frame(r)] = d]
  /\ users' = [users EXCEPT ![Frame(r)] = <<>>]
  /\ batch_users' = [batch_users EXCEPT ![Frame(r)] = FALSE]
  /\ batch_chats' = [batch_chats EXCEPT ![Frame(r)] = FALSE]
  /\ pc' = [pc EXCEPT ![r] = "users"]
  /\ quota' = [quota EXCEPT !.calls = @ - 1]
  /\ UNCHANGED <<token, session, bot_info, exc, slept, response, calls, chats,
                 inaccessible_chats, batch_count, custom_pts, custom_date,
                 custom_qts, obsVars, normVars>>

\* await client.invoke(GetDifference(...)) returns a page.
InvokeOk(r) ==
  /\ pc[r] = "invoke"
  /\ Scheduled(r)
  /\ quota.calls > 0
  /\ \E d \in Diffs : diff' = [diff EXCEPT ![Frame(r)] = d]
  /\ batch_users' = [batch_users EXCEPT ![Frame(r)] = FALSE]
  /\ batch_chats' = [batch_chats EXCEPT ![Frame(r)] = FALSE]
  /\ pc' = [pc EXCEPT ![r] = "users"]
  /\ quota' = [quota EXCEPT !.calls = @ - 1]
  /\ UNCHANGED <<token, session, bot_info, exc, slept, response, calls, chats, users, inaccessible_chats, batch_count,
                 custom_pts, custom_date, custom_qts, obsVars>>
  /\ UNCHANGED normVars

\* The invoke raises FloodWait: except FloodWait -> await asyncio.sleep(fw.value).
InvokeFlood(r) ==
  /\ pc[r] = "invoke"
  /\ Scheduled(r)
  /\ quota.floods > 0
  /\ \E fw \in FloodWaits : exc' = [exc EXCEPT ![r] = fw]
  /\ slept' = [slept EXCEPT ![r] = 0]
  /\ pc' = [pc EXCEPT ![r] = "sleep"]
  /\ quota' = [quota EXCEPT !.floods = @ - 1]
  /\ UNCHANGED <<token, session, bot_info, response, calls, aggVars, obsVars>>
  /\ UNCHANGED normVars

\* The invoke raises anything else: except Exception -> raise Exception(...),
\* which leaves get_chats_and_users and reaches the handler's except clauses.
InvokeFails(r) ==
  /\ pc[r] = "invoke"
  /\ Scheduled(r)
  /\ \E e \in CallErrors :
       /\ exc' = [exc EXCEPT ![r] = e]
       /\ Return(r, ErrorResponse(AggregationError(e)))
  /\ DropAggregation(r)
  /\ UNCHANGED <<token, session, bot_info, slept, calls, quota>>
  /\ UNCHANGED normVars

\* One iteration of "for user in getattr(diff, 'users', [])".
ProcessUser(r) ==
  /\ pc[r] = "users"
  /\ Scheduled(r)
  /\ HasLists(diff[Frame(r)])
  /\ quota.objs > 0
  /\ \E user \in RawUsers :
       /\ users' = [users EXCEPT ![Frame(r)] = DictSet(@, user.id, UserFromList(user))]
       /\ SeeUser(r, user)
  /\ batch_users' = [batch_users EXCEPT ![Frame(r)] = TRUE]
  /\ quota' = [quota EXCEPT !.objs = @ - 1]
  /\ UNCHANGED <<reqVars, chats, inaccessible_chats, batch_count, custom_pts,
                 custom_date, custom_qts, batch_chats, diff, obsChats,
                 obsForbidden, lost>>
  /\ UNCHANGED normVars

\* The users loop ends.
EndUsers(r) ==
  /\ pc[r] = "users"
  /\ Scheduled(r)
  /\ pc' = [pc EXCEPT ![r] = "chats"]
  /\ UNCHANGED <<token, session, bot_info, exc, slept, response, calls, aggVars, obsVars, quota>>
  /\ UNCHANGED normVars

\* The body of the chat loops testing only "chat.id not in chats": an excluded
\* id is looked at again.
RecordChat_IgnoresExcluded(r, chat, chat_data) ==
  IF chat.id \notin Keys(chats[Frame(r)])
  THEN IF IsForbidden(chat)
       THEN /\ inaccessible_chats' = [inaccessible_chats EXCEPT ![Frame(r)] = @ \cup {chat.id}]
            /\ UNCHANGED <<chats, batch_chats>>
       ELSE /\ chats' = [chats EXCEPT ![Frame(r)] =
                 DictSet(@, chat.id, merge_chat_data(DictGet(@, chat.id), chat_data))]
            /\ batch_chats' = [batch_chats EXCEPT ![Frame(r)] = TRUE]
            /\ UNCHANGED inaccessible_chats
  ELSE UNCHANGED <<chats, batch_chats, inaccessible_chats>>

\* The body both chat loops share (lines 148-167 and 173-192): a chat whose id
\* is neither recorded nor excluded is excluded when forbidden, else recorded.
RecordChat(r, chat, chat_data) ==
  IF chat.id \notin Keys(chats[Frame(r)]) /\ chat.id \notin inaccessible_chats[Frame(r)]
  THEN IF IsForbidden(chat)
       THEN /\ inaccessible_chats' = [inaccessible_chats EXCEPT ![Frame(r)] = @ \cup {chat.id}]
            /\ UNCHANGED <<chats, batch_chats>>
       ELSE /\ chats' = [chats EXCEPT ![Frame(r)] =
                 DictSet(@, chat.id, merge_chat_data(DictGet(@, chat.id), chat_data))]
            /\ batch_chats' = [batch_chats EXCEPT ![Frame(r)] = TRUE]
            /\ UNCHANGED inaccessible_chats
  ELSE UNCHANGED <<chats, batch_chats, inaccessible_chats>>

\* One iteration of "for chat in getattr(diff, 'chats', [])".
ProcessChat(r) ==
  /\ pc[r] = "chats"
  /\ Scheduled(r)
  /\ HasLists(diff[Frame(r)])
  /\ quota.objs > 0
  /\ \E chat \in ListChats :
       /\ RecordChat(r, chat, ChatFromList(chat))
       /\ SeeChat(r, chat, ChatFromList(chat))
  /\ quota' = [quota EXCEPT !.objs = @ - 1]
  /\ UNCHANGED <<reqVars, users, batch_count, custom_pts, custom_date,
                 custom_qts, batch_users, diff, obsUsers, lost>>
  /\ UNCHANGED normVars

\* The chats loop ends.
EndChats(r) ==
  /\ pc[r] = "chats"
  /\ Scheduled(r)
  /\ pc' = [pc EXCEPT ![r] = "messages"]
  /\ UNCHANGED <<token, session, bot_info, exc, slept, response, calls, aggVars, obsVars, quota>>
  /\ UNCHANGED normVars

\* One iteration of "for update in getattr(diff, 'new_messages', [])".
ProcessMessage(r) ==
  /\ pc[r] = "messages"
  /\ Scheduled(r)
  /\ HasLists(diff[Frame(r)])
  /\ quota.objs > 0
  /\ \E update \in Updates :
       IF IsNewMessage(update) /\ update.chat /= None
       THEN /\ RecordChat(r, Val(update.chat), ChatFromMessage(Val(update.chat)))
            /\ SeeChat(r, Val(update.chat), ChatFromMessage(Val(update.chat)))
       ELSE UNCHANGED <<chats, batch_chats, inaccessible_chats, obsChats, obsForbidden>>
  /\ quota' = [quota EXCEPT !.objs = @ - 1]
  /\ UNCHANGED <<reqVars, users, batch_count, custom_pts, custom_date,
                 custom_qts, batch_users, diff, obsUsers, lost>>
  /\ UNCHANGED normVars

\* The loop left only by the breaks of lines 212-215: the empty-batch
\* branch without its test for a full difference.
LoopBreaks_EmptyBatchContinues(d, empty_batch) ==
  IF empty_batch
  THEN FALSE
  ELSE IF d.shape = "DifferenceSlice" THEN FALSE
       ELSE IF d.shape = "Difference" THEN TRUE
       ELSE TRUE

\* Lines 194-215: whether the loop is left after this page.
LoopBreaks(d, empty_batch) ==
  IF empty_batch
  THEN d.shape = "Difference"
  ELSE IF d.shape = "DifferenceSlice" THEN FALSE
       ELSE IF d.shape = "Difference" THEN TRUE
       ELSE TRUE

\* The cursor left where it is, also after a slice.
NextCursor_Unmoved(d, cursor) == cursor

\* Lines 199-202 and 208-211: the cursor after this page.
NextCursor(d, cursor) ==
  IF d.shape = "DifferenceSlice" THEN d.state ELSE cursor

\* The page's loops are over: the loop is left and get_chats_and_users returns
\* to the handler, which awaits client.stop(); or the cursor is updated and the
\* next GetDifference goes out.  The page and its batch lists are not read
\* again before lines 118, 130 and 146 reassign them: they are cleared here.
EndPage(r) ==
  /\ pc[r] = "messages"
  /\ Scheduled(r)
  /\ batch_count' = [batch_count EXCEPT ![Frame(r)] = @ + 1]
  /\ IF LoopBreaks(diff[Frame(r)], ~batch_users[Frame(r)] /\ ~batch_chats[Frame(r)])
     THEN /\ calls' = [calls EXCEPT ![r] = Made(@, Call("stop", NoCursor))]
          /\ pc' = [pc EXCEPT ![r] = "stop"]
          /\ UNCHANGED <<custom_pts, custom_date, custom_qts>>
     ELSE LET next == NextCursor(diff[Frame(r)], Cursor(r))
          IN  /\ custom_pts' = [custom_pts EXCEPT ![Frame(r)] = next.pts]
              /\ custom_date' = [custom_date EXCEPT ![Frame(r)] = next.date]
              /\ custom_qts' = [custom_qts EXCEPT ![Frame(r)] = next.qts]
              /\ calls' = [calls EXCEPT ![r] = Made(@, Call("GetDifference", Cursor(r)'))]
              /\ pc' = [pc EXCEPT ![r] = "invoke"]
  /\ diff' = [diff EXCEPT ![Frame(r)] = NoDiff]
  /\ batch_users' = [batch_users EXCEPT ![Frame(r)] = FALSE]
  /\ batch_chats' = [batch_chats EXCEPT ![Frame(r)] = FALSE]
  /\ UNCHANGED <<token, session, bot_info, exc, slept, response, chats, users,
                 inaccessible_chats, obsVars, quota>>
  /\ UNCHANGED normVars

\* A clock tick while the request sleeps.
Tick(r) ==
  /\ pc[r] = "sleep"
  /\ Scheduled(r)
  /\ slept[r] < exc[r].value
  /\ slept' = [slept EXCEPT ![r] = @ + 1]
  /\ UNCHANGED <<pc, token, session, bot_info, exc, response, calls, aggVars,
                 obsVars, quota>>
  /\ UNCHANGED normVars

\* await asyncio.sleep(fw.value) returns once fw.value ticks have passed.
SleepOver(r) == slept[r] >= exc[r].value

\* Line 219: return await get_chats_and_users(client), a fresh run.  The flood
\* wait is handled: the new run has no exception pending.
Wake(r) ==
  /\ pc[r] = "sleep"
  /\ Scheduled(r)
  /\ SleepOver(r)
  /\ EnterAggregation(r)
  /\ lost' = [lost EXCEPT ![r] =
       [users |-> @.users \cup {i \in UserIds : obsUsers[r][i].n > 0},
        chats |-> @.chats \cup {i \in ChatIds : obsChats[r][i].n > 0}
                          \cup obsForbidden[r]]]
  /\ obsUsers' = [obsUsers EXCEPT ![r] = NoUsersSeen]
  /\ obsChats' = [obsChats EXCEPT ![r] = NoChatsSeen]
  /\ obsForbidden' = [obsForbidden EXCEPT ![r] = {}]
  /\ exc' = [exc EXCEPT ![r] = NoExc]
  /\ slept' = [slept EXCEPT ![r] = 0]
  /\ UNCHANGED <<token, session, bot_info, response, quota>>
  /\ UNCHANGED normVars

\* await client.stop() returns; the handler builds and returns the 200 response.
StopOk(r) ==
  /\ pc[r] = "stop"
  /\ Scheduled(r)
  /\ session' = [session EXCEPT ![r] = "stopped"]
  /\ Return(r, BotDataResponse(Val(bot_info[r]), chats[Frame(r)], users[Frame(r)]))
  /\ UNCHANGED <<token, bot_info, exc, slept, calls, aggVars, obsVars, quota>>
  /\ UNCHANGED normVars

Next ==
  \E r \in Requests :
    \/ Receive(r)
    \/ StartOk(r)
    \/ StartFails(r)
    \/ GetMeOk(r)
    \/ GetMeFails(r)
    \/ InvokeOk(r)
    \/ InvokeFlood(r)
    \/ InvokeFails(r)
    \/ ProcessUser(r)
    \/ EndUsers(r)
    \/ ProcessChat(r)
    \/ EndChats(r)
    \/ ProcessMessage(r)
    \/ EndPage(r)
    \/ Tick(r)
    \/ Wake(r)
    \/ StopOk(r)

Spec == Init /\ [][Next]_vars

SpecConc == InitConc /\ [][Next]_vars

\* ------------------------------------------- normalize_chat_type on its own

\* The texts of the raw type tags: the class names and chat.type names the
\* platform uses, the categories of the output contract, and others.
TagTexts ==
  {"chat", "channel", "chatforbidden", "channelforbidden", "private", "group",
   "supergroup", "bot", "user", "unknown", ""}

\* Every tag in several letter cases: any of the first, the second and the
\* last letter in upper case.
RawTypes ==
  UNION {{Str(t, caps \cap (1..Len(t))) : caps \in SUBSET {1, 2, Len(t)}}
         : t \in TagTexts}

\* A call normalize_chat_type(raw_type) is about to be made; no request is in
\* flight.
InitNorm ==
  /\ InitCommon
  /\ pc = [r \in Requests |-> "absent"]
  /\ quota = [objs |-> 0, calls |-> 0, floods |-> 0]
  /\ raw_type \in RawTypes
  /\ normalized = None
  /\ renormalized = None

\* normalize_chat_type(raw_type) returns.
Normalize ==
  /\ normalized = None
  /\ normalized' = Some(normalize_chat_type(raw_type))
  /\ UNCHANGED <<raw_type, renormalized, reqVars, aggVars, obsVars, quota>>

\* normalize_chat_type is called with what it returned.
NormalizeAgain ==
  /\ normalized /= None
  /\ renormalized = None
  /\ renormalized' = Some(normalize_chat_type(Val(normalized)))
  /\ UNCHANGED <<raw_type, normalized, reqVars, aggVars, obsVars, quota>>

NextNorm == Normalize \/ NormalizeAgain

SpecNorm == InitNorm /\ [][NextNorm]_vars

\* ------------------------------------------------------------------ claims

Done(r) == pc[r] = "done"

\* The platform call the request made last.
LastCall(r) == calls[r].last

\* The ids the current attempt of request r was served.
SeenUsers(r) == {i \in UserIds : obsUsers[r][i].n > 0}
SeenChats(r) == {i \in ChatIds : obsChats[r][i].n > 0}

\* C1: whenever the handler of a /tgusers request has returned and the
\* request's session was started, the session has been stopped, on every exit
\* path (success, an error from get_me, an error during aggregation).
C1_SessionStoppedOnEveryExit ==
  \A r \in Requests : (Done(r) /\ session[r] /= "none") => session[r] = "stopped"

\* C2: in a returned result, no record has the id of a chat that the attempt
\* observed as a forbidden variant, in chats[] or embedded in a message,
\* whether a non-forbidden variant of the id came before or after it.
C2_ForbiddenNeverReturned ==
  \A r \in Requests :
    response[r].status = 200 =>
      Keys(response[r].body.chats) \cap obsForbidden[r] = {}

\* C3: in a returned result, the record of every non-forbidden chat id that
\* was observed more than once has the latest observed non-null members_count,
\* the latest observed title other than "Unknown", and the latest observed
\* non-null username.
C3_LatestNonEmptyFieldsMerged ==
  \A r \in Requests : \A i \in ChatIds :
    (/\ response[r].status = 200
     /\ obsChats[r][i].n > 1
     /\ i \notin obsForbidden[r])
    => /\ DictHas(response[r].body.chats, i)
       /\ LET rec == Val(DictGet(response[r].body.chats, i))
          IN  /\ rec.members_count = obsChats[r][i].members_count
              /\ rec.title = obsChats[r][i].title
              /\ rec.username = obsChats[r][i].username

\* C4: when the loops of a page that is neither a full difference nor a slice
\* are over, the pagination loop stops: the next platform call is the stop of
\* the session, not another getDifference, whether the page yielded users or
\* chats or none.
C4_OtherShapeStopsLoop ==
  [][\A r \in Requests :
       (/\ pc[r] = "messages"
        /\ diff[Frame(r)].shape \notin {"Difference", "DifferenceSlice"}
        /\ pc'[r] /= "messages")
       => /\ pc'[r] = "stop"
          /\ calls'[r] = Made(calls[r], Call("stop", NoCursor))]_vars

\* C5: a request that ends because get_me or a getDifference call raised a
\* remote (RPC) error other than a flood wait answers HTTP 400 with the body
\* {"error": "Telegram API error: <msg>"}.
C5_RpcErrorAnswers400 ==
  \A r \in Requests :
    (/\ Done(r)
     /\ exc[r].cls = "RPCError"
     /\ LastCall(r).op \in {"get_me", "GetDifference"})
    => response[r] =
         [status |-> 400,
          body |-> [error |-> <<"Telegram API error: ">> \o exc[r].msg]]

\* C6: a request that ends because the platform rejected the token while the
\* client was starting answers HTTP 400 with an error body.
C6_AuthErrorAnswers400 ==
  \A r \in Requests :
    (Done(r) /\ exc[r].cls = "Unauthorized" /\ LastCall(r).op = "start")
    => response[r].status = 400

\* C7: a request whose token is absent or empty is answered exactly HTTP 400
\* {"error": "Bot token is required"}, has no client session and has made no
\* platform call.
C7_MissingTokenRejected ==
  \A r \in Requests :
    (pc[r] \notin {"absent", "new"} /\ token[r] \in {None, Some("")})
    => /\ Done(r)
       /\ response[r] = MissingToken
       /\ session[r] = "none"
       /\ calls[r] = NoCalls

\* C7 witness: a request with an empty token has been answered.
C7_Witness ==
  \E r \in Requests : Done(r) /\ token[r] = Some("") /\ response[r].status = 400

\* C8: a flood wait raised by a getDifference call puts the request to sleep;
\* the sleep ends only after the signalled duration, and what follows is a
\* getDifference call with the cursor (1, 1, 1) and empty chats, users and
\* forbidden-chat accumulators; a returned result holds only ids that the
\* last attempt was served.
C8_FloodWaitRestartsFromScratch ==
  /\ [][\A r \in Requests :
          /\ (pc[r] = "invoke" /\ pc'[r] = "sleep")
             => (exc'[r].cls = "FloodWait" /\ slept'[r] = 0)
          /\ (pc[r] = "sleep" /\ pc'[r] /= "sleep")
             => /\ slept[r] = exc[r].value
                /\ pc'[r] = "invoke"
                /\ calls'[r] = Made(calls[r], Call("GetDifference", State(1, 1, 1)))
                /\ <<custom_pts'[r], custom_date'[r], custom_qts'[r]>> = <<1, 1, 1>>
                /\ chats'[r] = <<>>
                /\ users'[r] = <<>>
                /\ inaccessible_chats'[r] = {}]_vars
  /\ [](\A r \in Requests :
          response[r].status = 200 =>
            /\ Keys(response[r].body.users) \subseteq SeenUsers(r)
            /\ Keys(response[r].body.chats) \subseteq SeenChats(r))

\* C8 witness: a result was returned after a restart, and a user served to the
\* interrupted attempt is not in it.
C8_Witness ==
  \E r \in Requests :
    /\ response[r].status = 200
    /\ lost[r].users \ Keys(response[r].body.users) /= {}

\* C9: with concurrent requests, the first getDifference call of every request
\* (the call that follows its get_me) carries the cursor (1, 1, 1), and the
\* users, chats and excluded chats a request holds or returns come from the
\* pages served to that request alone.
C9_RequestsIsolated ==
  /\ [][\A r \in Requests :
          (/\ LastCall(r).op = "get_me"
           /\ calls'[r] /= calls[r])
          => calls'[r].last = Call("GetDifference", State(1, 1, 1))]_vars
  /\ [](\A r \in Requests :
          /\ \A i \in UserIds : DictGet(users[r], i) = obsUsers[r][i].last
          /\ Keys(chats[r]) \subseteq SeenChats(r)
          /\ inaccessible_chats[r] \subseteq obsForbidden[r]
          /\ response[r].status = 200 =>
               /\ response[r].body.users = users[r]
               /\ response[r].body.chats = chats[r])

\* C9 witness: one request has recorded a user and moved its cursor to pts 50
\* while another request has its first getDifference call on the wire.
C9_Witness ==
  \E r, q \in Requests :
    /\ r /= q
    /\ custom_pts[r] = 50
    /\ users[r] /= <<>>
    /\ pc[q] = "invoke"
    /\ calls[q].n = 3

\* C10: a request that ends because a platform call (session start, get_me or
\* getDifference) raised a flood wait is not answered with an error (HTTP 400
\* or 500).
C10_FloodWaitNeverAnError ==
  \A r \in Requests :
    (Done(r) /\ exc[r].cls = "FloodWait") => response[r].status \notin {400, 500}

\* C11: whatever the raw type tag and its letter case, normalize_chat_type
\* returns one of private, group, supergroup, channel, unknown, and a tag that
\* is not a recognized one gives "unknown".
C11_TypeInFixedCategories ==
  normalized /= None =>
    /\ Val(normalized) \in
         {Str(c, {}) : c \in {"private", "group", "supergroup", "channel", "unknown"}}
    /\ (Lower(raw_type).s \notin
           DOMAIN type_map \cup {"private", "group", "supergroup"})
        => Val(normalized) = Str("unknown", {})

\* C12: within one request, the cursor of every getDifference call is, in each
\* of pts, qts and date, at least the cursor of the getDifference call before
\* it, whatever intermediate states the platform returns and also across a
\* flood-wait restart.
C12_CursorNeverDecreases ==
  [][\A r \in Requests :
       (/\ LastCall(r).op = "GetDifference"
        /\ calls'[r] /= calls[r]
        /\ calls'[r].last.op = "GetDifference")
       => /\ calls'[r].last.cursor.pts >= LastCall(r).cursor.pts
          /\ calls'[r].last.cursor.qts >= LastCall(r).cursor.qts
          /\ calls'[r].last.cursor.date >= LastCall(r).cursor.date]_vars

\* C13: the user ids of a returned result are exactly the user ids served in
\* users[] on the pages of the final attempt, each id once; users gathered
\* from an earlier slice page are kept when the terminal page carries no data.
C13_UsersAreUnionOfPages ==
  \A r \in Requests :
    response[r].status = 200 =>
      /\ Keys(response[r].body.users) = SeenUsers(r)
      /\ Len(response[r].body.users) = Cardinality(SeenUsers(r))

\* C13 witness: two getDifference calls and no flood wait; the only object the
\* platform delivered is a user on the first page, a slice, so the second
\* page, the terminal one, was empty; the result holds exactly that user.
C13_Witness ==
  \E r \in Requests : \E i \in UserIds :
    /\ response[r].status = 200
    /\ calls[r].n = 5
    /\ batch_count[Frame(r)] = 2
    /\ custom_pts[Frame(r)] = 50
    /\ quota.floods = MaxFloods
    /\ quota.objs = MaxObs - 1
    /\ obsUsers[r][i].page = 1
    /\ Keys(response[r].body.users) = {i}
    /\ Len(response[r].body.users) = 1

\* C14: normalize_chat_type is idempotent: applied to what it returned for a
\* raw type tag, it returns that same value.
C14_NormalizeIdempotent ==
  renormalized /= None => renormalized = normalized

\* C14 witness: a tag with upper-case letters that the first call changed (to
\* another text, not only in case) has been normalized twice.
C14_Witness ==
  /\ renormalized /= None
  /\ raw_type.up /= {}
  /\ Val(normalized).s /= raw_type.s

\* C15: when the loops of a page that is a full difference are over, no
\* further getDifference call is issued in the attempt: the aggregation
\* returns and the next platform call is the stop of the session, whether the
\* page yielded users or chats or none.
C15_FullPageEndsLoop ==
  [][\A r \in Requests :
       (/\ pc[r] = "messages"
        /\ diff[Frame(r)].shape = "Difference"
        /\ pc'[r] /= "messages")
       => /\ pc'[r] = "stop"
          /\ calls'[r] = Made(calls[r], Call("stop", NoCursor))
          /\ chats'[Frame(r)] = chats[Frame(r)]
          /\ users'[Frame(r)] = users[Frame(r)]]_vars

\* C15 witness: the only getDifference call of a request was answered by a
\* page that yielded a user, and the request returned its result: the session
\* was stopped right after that page.
C15_Witness ==
  \E r \in Requests :
    /\ response[r].status = 200
    /\ calls[r] = [n |-> 4, last |-> Call("stop", NoCursor)]
    /\ quota.calls = MaxCalls - 1
    /\ batch_count[Frame(r)] = 1
    /\ users[Frame(r)] /= <<>>

\* C16: when the loops of a page that is a slice are over, the next platform
\* call is a getDifference whose cursor is exactly the slice's
\* intermediate_state, whether the page yielded users or chats or none; the
\* cursor used for the slice page is sent again only if the intermediate
\* state equals it.
C16_SliceAdvancesCursor ==
  [][\A r \in Requests :
       (/\ pc[r] = "messages"
        /\ diff[Frame(r)].shape = "DifferenceSlice"
        /\ pc'[r] /= "messages")
       => /\ pc'[r] = "invoke"
          /\ calls'[r] = Made(calls[r], Call("GetDifference", diff[Frame(r)].state))
          /\ Cursor(r)' = diff[Frame(r)].state
          /\ (calls'[r].last.cursor = LastCall(r).cursor
               => diff[Frame(r)].state = LastCall(r).cursor)]_vars

\* C16 witness: the first page was a slice that yielded nothing (the platform
\* has delivered no object), and the second getDifference call is on the wire
\* with the slice's intermediate state (50, 60, 70), not with (1, 1, 1).
C16_Witness ==
  \E r \in Requests :
    /\ pc[r] = "invoke"
    /\ batch_count[Frame(r)] = 1
    /\ quota.objs = MaxObs
    /\ quota.floods = MaxFloods
    /\ calls[r] = [n |-> 4, last |-> Call("GetDifference", State(50, 60, 70))]

\* C17: when a user id was observed in users[] more than once in the final
\* attempt, on one page or on several, the returned record of that id is the
\* last observation, and the id appears exactly once in the result.
C17_UserLastWriteWins ==
  \A r \in Requests : \A i \in UserIds :
    (response[r].status = 200 /\ obsUsers[r][i].n > 1)
    => /\ DictGet(response[r].body.users, i) = obsUsers[r][i].last
       /\ Cardinality({k \in 1..Len(response[r].body.users) :
                         response[r].body.users[k].id = i}) = 1

\* C17 witness: a result was returned for an attempt that observed one user id
\* twice, the second time on the second page and with other fields than the
\* first time.
C17_Witness ==
  \E r \in Requests : \E i \in UserIds :
    /\ response[r].status = 200
    /\ obsUsers[r][i].n = 2
    /\ obsUsers[r][i].page = 2
    /\ obsUsers[r][i].changed

\* C18: at every point of an aggregation attempt the recorded chat ids and the
\* excluded chat ids are disjoint; within an attempt (every step but the
\* restart after a flood wait and the exit by an exception) no id leaves
\* either set; each chat id appears at most once in chats and in the returned
\* chats collection.
C18_RecordedAndExcludedDisjoint ==
  /\ [][\A r \in Requests :
          (/\ ~(pc[r] = "sleep" /\ pc'[r] = "invoke")
           /\ ~(pc[r] = "invoke" /\ pc'[r] = "done"))
          => /\ Keys(chats[Frame(r)]) \subseteq Keys(chats'[Frame(r)])
             /\ inaccessible_chats[Frame(r)] \subseteq inaccessible_chats'[Frame(r)]]_vars
  /\ [](\A r \in Requests :
          /\ Keys(chats[Frame(r)]) \cap inaccessible_chats[Frame(r)] = {}
          /\ Len(chats[Frame(r)]) = Cardinality(Keys(chats[Frame(r)]))
          /\ response[r].status = 200 =>
               /\ Len(response[r].body.chats) =
                    Cardinality(Keys(response[r].body.chats))
               /\ Keys(response[r].body.chats) \cap inaccessible_chats[Frame(r)] = {})

\* C18 witness: a result was returned for an attempt that excluded a chat id
\* and later observed a non-forbidden chat with that id: the id is still
\* excluded and not in the result.
C18_Witness ==
  \E r \in Requests : \E i \in ChatIds :
    /\ response[r].status = 200
    /\ i \in inaccessible_chats[Frame(r)]
    /\ obsChats[r][i].n > 0
    /\ i \notin Keys(response[r].body.chats)

====
